---- MODULE Spec2Model ----
(***************************************************************************)
(* ArticleGenerator (resumable batch pipeline): generateArticles with its  *)
(* checkpoint file progress.json, its output file articles.json and the    *)
(* temp file articles.json.tmp.  One action per await of the code; the     *)
(* process may stop between any two of them and be started again.          *)
(***************************************************************************)
EXTENDS Integers, Sequences, FiniteSets, TLC

\* ------------------------------------------------------------------ bounds
MaxThreads == 2      \* longest input thread list
MaxRuns == 2         \* invocations of generateArticles on the same disk
MaxFaults == 2       \* deviations of the environment in one behaviour: rejected
                     \* or non-conforming answers of the completion service,
                     \* failed file operations, stops of the process, a
                     \* progress.json that no invocation of the job wrote

\* ------------------------------------------------------- program constants
analysisPercentage == 30
ANTISEMITIC_BATCH_SIZE == 20

progressFile == "progress.json"
outputFile == "articles.json"
\* variant: the output is written in place
tempFile_inPlace == outputFile
tempFile == "articles.json.tmp"
Paths == {"progress.json", "articles.json", "articles.json.tmp"}

\* ------------------------------------------------------------ input data
\* A thread is its identifier, its number of posts and how many of these
\* posts have a non-empty text (com).
Thread(no, posts, withText) == [no |-> no, posts |-> posts, withText |-> withText]
ThreadCatalog ==
  { Thread(1, 0, 0),      \* no posts
    Thread(2, 2, 1),      \* sample of 1, which has a text or not
    Thread(3, 70, 70) }   \* sample of 21: two classification chunks

RECURSIVE SeqsUpTo(_, _)
SeqsUpTo(S, n) ==
  IF n = 0 THEN { <<>> }
  ELSE LET shorter == SeqsUpTo(S, n - 1)
       IN shorter \cup { Append(s, x) : s \in { t \in shorter : Len(t) = n - 1 }, x \in S }
ThreadLists == SeqsUpTo(ThreadCatalog, MaxThreads)

\* --------------------------------------------------------------- numbers
\* A JavaScript number that is the result of a division: an exact fraction
\* n/d in lowest terms, NaN, Infinity, or (after a JSON round trip) null.
RECURSIVE GCD(_, _)
GCD(a, b) == IF b = 0 THEN a ELSE GCD(b, a % b)
Num(n, d) == LET g == GCD(n, d) IN [k |-> "num", n |-> n \div g, d |-> d \div g]
NaN == [k |-> "nan", n |-> 0, d |-> 1]
Infinity == [k |-> "inf", n |-> 0, d |-> 1]
Null == [k |-> "null", n |-> 0, d |-> 1]
Zero == Num(0, 1)

\* (a / b) * 100 for non-negative integers a, b
Divide100(a, b) ==
  IF b = 0 THEN (IF a = 0 THEN NaN ELSE Infinity) ELSE Num(100 * a, b)

\* x + y; null coerces to 0
Plus(x, y) ==
  LET a == IF x.k = "null" THEN Zero ELSE x
      b == IF y.k = "null" THEN Zero ELSE y
  IN IF a.k = "nan" \/ b.k = "nan" THEN NaN
     ELSE IF a.k = "inf" \/ b.k = "inf" THEN Infinity
     ELSE Num(a.n * b.d + b.n * a.d, a.d * b.d)

\* x / c for a positive integer c
DivideBy(x, c) ==
  IF x.k = "num" THEN Num(x.n, x.d * c)
  ELSE IF x.k = "null" THEN Zero ELSE x

\* JSON.stringify followed by JSON.parse of a number: NaN and Infinity
\* are written as null
JSONNumber(x) == IF x.k \in {"nan", "inf"} THEN Null ELSE x

\* ---------------------------------------------------------------- records
\* ArticleAnalysis, flattened: antisemiticStats.* and metadata.*
JSONRecord(a) == [a EXCEPT !.percentage = JSONNumber(a.percentage)]
JSONRecords(as) == [i \in 1..Len(as) |-> JSONRecord(as[i])]

NoStats ==
  [totalThreads |-> 0, totalAnalyzedPosts |-> 0,
   averageAntisemiticPercentage |-> Zero, generatedAt |-> 0]
JSONStats(s) ==
  [s EXCEPT !.averageAntisemiticPercentage = JSONNumber(s.averageAntisemiticPercentage)]

\* ------------------------------------------------------------------ files
\* kind: "absent", "garbage" (not JSON, e.g. a partly written file),
\* "null" (the JSON text null), "noarticles" (an object without articles),
\* "scalar" (articles is not an array), "badrec" (articles holds an element
\* that is not an ArticleAnalysis), "ok" (a checkpoint), "batch" and "old"
\* (an output file of this program / of an earlier job).
File(kind, articles, stats) == [kind |-> kind, articles |-> articles, stats |-> stats]
Absent == File("absent", <<>>, NoStats)
Garbage == File("garbage", <<>>, NoStats)
OldOutput == File("old", <<>>, NoStats)
Exists(f) == f.kind # "absent"

\* JSON.stringify({ articles, timestamp })
ProgressJSON(articles) == File("ok", JSONRecords(articles), NoStats)
\* JSON.stringify({ ...batch, timestamp })
OutputJSON(b) == File("batch", JSONRecords(b.articles), JSONStats(b.batchStats))

\* ------------------------------------------------- the completion service
\* What client.chat can do with a summary request: reject, or answer with
\* a text that has, or lacks, the HEADLINE: and ARTICLE: lines.
SummaryResponses ==
  { [kind |-> "throw", headline |-> FALSE, article |-> FALSE],
    [kind |-> "text", headline |-> TRUE, article |-> TRUE],
    [kind |-> "text", headline |-> FALSE, article |-> FALSE] }

\* What it can do with a classification request of `size` comments: reject,
\* answer without an X/Y pattern, answer X/Y with the total `size` (1/size,
\* 2/size), or answer X/Y with a total that is not `size` and a count above it.
ChunkResponses(size) ==
  { [kind |-> "throw", match |-> FALSE, x |-> 0, y |-> 0],
    [kind |-> "text", match |-> FALSE, x |-> 0, y |-> 0],
    [kind |-> "text", match |-> TRUE, x |-> 1, y |-> size],
    [kind |-> "text", match |-> TRUE, x |-> 2, y |-> size],
    [kind |-> "text", match |-> TRUE, x |-> size + 5, y |-> size + 1] }

\* ---------------------------------------------------------------- parsers
\* variant: a missing label gives an empty string
parseArticleResponse_empty(r) ==
  << IF r.headline THEN "Headline" ELSE "", IF r.article THEN "Article" ELSE "" >>
parseArticleResponse(r) ==
  << IF r.headline THEN "Headline" ELSE "Untitled Thread",
     IF r.article THEN "Article" ELSE "No content available" >>

parseAntisemiticResponse(r) ==
  IF ~r.match THEN <<0, 1>> ELSE <<r.x, r.y>>

\* ---------------------------------------------------------------- sampler
\* variant: the sample size is rounded down
getPostsToAnalyze_floor(thread) == (thread.posts * analysisPercentage) \div 100
\* postsToAnalyze.length
getPostsToAnalyze(thread) ==
  IF thread.posts = 0 THEN 0
  ELSE (thread.posts * analysisPercentage + 99) \div 100

\* randomSample(thread.posts, n): any n of the posts; a sample is given by
\* the number of its posts that have a text.
randomSample(thread, n) ==
  { v \in 0..n : v <= thread.withText /\ n - v <= thread.posts - thread.withText }

\* ------------------------------------------------------- thread analyzer
\* the locals of analyzeThread and analyzeAntisemiticContent
NoThread == Thread(0, 0, 0)
NoCur ==
  [thread |-> NoThread, analyzedPosts |-> 0, validPosts |-> 0,
   headline |-> "", article |-> "", i |-> 0,
   totalAntisemiticCount |-> 0, totalAnalyzed |-> 0]

\* batchPosts.length of the chunk that starts at i
batchLength(validPosts, i) ==
  IF validPosts - i < ANTISEMITIC_BATCH_SIZE THEN validPosts - i
  ELSE ANTISEMITIC_BATCH_SIZE

\* variant: the total reported by the service is trusted
batchAnalyzed_reported(parsed, size) == parsed[2]
\* what a chunk whose call returned adds to totalAnalyzed
batchAnalyzed(parsed, size) ==
  IF parsed[2] # size THEN size ELSE parsed[2]

\* variant: a rejected call ends the loop
analyzeBatch_abort(c, r) ==
  LET size == batchLength(c.validPosts, c.i)
      parsed == parseAntisemiticResponse(r)
  IN IF r.kind = "throw"
     THEN [c EXCEPT !.i = c.validPosts]
     ELSE [c EXCEPT !.i = c.i + ANTISEMITIC_BATCH_SIZE,
                    !.totalAnalyzed = c.totalAnalyzed + batchAnalyzed(parsed, size),
                    !.totalAntisemiticCount = c.totalAntisemiticCount + parsed[1]]
\* the loop body of analyzeAntisemiticContent for one chunk
analyzeBatch(c, r) ==
  LET size == batchLength(c.validPosts, c.i)
      parsed == parseAntisemiticResponse(r)
  IN IF r.kind = "throw"
     THEN [c EXCEPT !.i = c.i + ANTISEMITIC_BATCH_SIZE]
     ELSE [c EXCEPT !.i = c.i + ANTISEMITIC_BATCH_SIZE,
                    !.totalAnalyzed = c.totalAnalyzed + batchAnalyzed(parsed, size),
                    !.totalAntisemiticCount = c.totalAntisemiticCount + parsed[1]]

percentage(antisemiticCount, totalAnalyzed) == Divide100(antisemiticCount, totalAnalyzed)

\* the object analyzeThread returns
ArticleAnalysis(c, now) ==
  [threadId |-> c.thread.no,
   headline |-> c.headline,
   article |-> c.article,
   analyzedComments |-> c.totalAnalyzed,
   antisemiticComments |-> c.totalAntisemiticCount,
   percentage |-> percentage(c.totalAntisemiticCount, c.totalAnalyzed),
   totalPosts |-> c.thread.posts,
   analyzedPosts |-> c.analyzedPosts,
   generatedAt |-> now]

\* ------------------------------------------------------------ job runner
\* loadProgress: what `data.articles || []` evaluates to, or [] when
\* readFile, JSON.parse or the property access throws
loadProgress(file, readOk) ==
  IF ~readOk \/ file.kind \in {"absent", "garbage", "null", "noarticles"}
  THEN File("ok", <<>>, NoStats)
  ELSE file

Records(articles) == { articles[i] : i \in 1..Len(articles) }
ThreadIds(articles) == { articles[i].threadId : i \in 1..Len(articles) }

completedThreadIds(existingArticles) == ThreadIds(existingArticles)

\* variant: the input list is not filtered
remainingThreads_unfiltered(ts, completed) == ts
remainingThreads(ts, completed) ==
  SelectSeq(ts, LAMBDA t : t.no \notin completed)

RECURSIVE SumAnalyzedPosts(_)
SumAnalyzedPosts(as) ==
  IF as = <<>> THEN 0 ELSE SumAnalyzedPosts(Tail(as)) + Head(as).analyzedPosts

RECURSIVE SumPercentage(_)
SumPercentage(as) ==
  IF as = <<>> THEN Zero
  ELSE LET a == as[Len(as)]
           sum == SumPercentage(SubSeq(as, 1, Len(as) - 1))
       IN IF a.analyzedComments > 0 THEN Plus(sum, a.percentage) ELSE sum

threadsWithAnalysis(as) ==
  Cardinality({ i \in 1..Len(as) : as[i].analyzedComments > 0 })

\* variant: threads without analyzable content count as 0%
averagePercentage_overAll(as, total) ==
  IF Len(as) > 0 THEN DivideBy(total, Len(as)) ELSE Zero
averagePercentage(as, total) ==
  IF threadsWithAnalysis(as) > 0 THEN DivideBy(total, threadsWithAnalysis(as)) ELSE Zero

NoBatch == [articles |-> <<>>, batchStats |-> NoStats]
ArticleBatch(as, posts, average, now) ==
  [articles |-> as,
   batchStats |-> [totalThreads |-> Len(as), totalAnalyzedPosts |-> posts,
                   averageAntisemiticPercentage |-> average, generatedAt |-> now]]

\* ------------------------------------------------------------------ state
VARIABLES
  fs,            \* the three files: path -> content
  threads,       \* the input thread list of the job
  run,           \* number of the current invocation; also Date.now()
  pc,            \* where generateArticles stands
  existingArticles, completed, remaining, articles,
  totalAnalyzedPosts, totalAntisemiticPercentage,
  cur,           \* locals of the thread being analyzed
  batch,         \* the ArticleBatch built at the end
  result,        \* what generateArticles returned
  error,         \* "none", or where the error it raised comes from
  \* history of the current invocation
  requests,      \* the completion requests issued, in order
  responses,     \* what the completion calls returned, in order
  checkpointed,  \* the threadIds of the records given to the latest call
                 \*   of saveProgress
  progressed,    \* the arguments of the onProgress calls, in order
  renames,       \* how often articles.json was replaced
  priorOutput,   \* articles.json as it was when the invocation started
  loaded,        \* progress.json as it was when it was read, and
  readOk,        \*   whether readFile succeeded
  failedStep,    \* the step of saveOutput that failed, or "none"
  cleanupFailed, \* the unlink of the temp file in its catch block failed
  saved,         \* records that the checkpoint writes of this invocation
                 \*   have put into progress.json
  \* history of the job
  stub,          \* every completion call so far (of all invocations) was
                 \*   answered by the deterministic stub
  faults         \* number of deviations of the environment so far

vars ==
  << fs, threads, run, pc, existingArticles, completed, remaining, articles,
     totalAnalyzedPosts, totalAntisemiticPercentage, cur, batch, result, error,
     requests, responses, checkpointed, progressed, renames, priorOutput, loaded,
     readOk, failedStep, cleanupFailed, saved, stub, faults >>

memory ==
  << existingArticles, completed, remaining, articles,
     totalAnalyzedPosts, totalAntisemiticPercentage, cur, batch >>
history ==
  << requests, responses, checkpointed, progressed, renames, priorOutput, loaded, readOk,
     failedStep, cleanupFailed, saved >>

Running ==
  {"load", "loop", "summary", "chunks", "save", "mkdir", "write", "rename", "catch"}

\* The environment deviates (d = TRUE) only while the budget lasts.
Fault(d) ==
  /\ d => faults < MaxFaults
  /\ faults' = IF d THEN faults + 1 ELSE faults

\* the deterministic stub of the completion service
StubSummary == [kind |-> "text", headline |-> TRUE, article |-> TRUE]
StubChunk(size) == [kind |-> "text", match |-> TRUE, x |-> 1, y |-> size]

\* the checkpoint that an earlier job, over a list with thread 3, left
\* behind: it stopped after this thread, or it completed and its unlink of
\* progress.json failed
EarlierCheckpoint ==
  ProgressJSON(<< ArticleAnalysis(
    [thread |-> Thread(3, 70, 70), analyzedPosts |-> 21, validPosts |-> 21,
     headline |-> "Headline", article |-> "Article", i |-> 40,
     totalAntisemiticCount |-> 2, totalAnalyzed |-> 21], 0) >>)

\* progress.json as a job may find it when it is first invoked
InitialProgress ==
  { Absent, Garbage, File("null", <<>>, NoStats), File("noarticles", <<>>, NoStats),
    File("scalar", <<>>, NoStats), File("badrec", <<>>, NoStats), EarlierCheckpoint }

FreshMemory ==
  /\ existingArticles = <<>>
  /\ completed = {}
  /\ remaining = <<>>
  /\ articles = <<>>
  /\ totalAnalyzedPosts = 0
  /\ totalAntisemiticPercentage = Zero
  /\ cur = NoCur
  /\ batch = NoBatch

\* The job is invoked for the first time; an articles.json of an earlier job
\* is in place.
Init ==
  /\ threads \in ThreadLists
  /\ \E p \in InitialProgress :
       fs = [f \in Paths |-> IF f = progressFile THEN p
                             ELSE IF f = outputFile THEN OldOutput ELSE Absent]
  /\ priorOutput = OldOutput
  /\ run = 1
  /\ pc = "load"
  /\ FreshMemory
  /\ result = NoBatch
  /\ error = "none"
  /\ requests = <<>>
  /\ responses = <<>>
  /\ checkpointed = <<>>
  /\ progressed = <<>>
  /\ renames = 0
  /\ loaded = Absent
  /\ readOk = TRUE
  /\ failedStep = "none"
  /\ cleanupFailed = FALSE
  /\ saved = {}
  /\ stub = TRUE
  /\ faults = IF fs[progressFile] = Absent THEN 0 ELSE 1

\* ---------------------------------------------------------------- actions
\* the locals of generateArticles of a new invocation
ResetMemory ==
  /\ existingArticles' = <<>>
  /\ completed' = {}
  /\ remaining' = <<>>
  /\ articles' = <<>>
  /\ totalAnalyzedPosts' = 0
  /\ totalAntisemiticPercentage' = Zero
  /\ cur' = NoCur
  /\ batch' = NoBatch

\* generateArticles up to the loop: loadProgress, the set of completed
\* identifiers, the filter and the two reduce calls.  It throws when
\* existingArticles is not an array of ArticleAnalysis.
LoadProgress ==
  /\ pc = "load"
  /\ \E ok \in BOOLEAN :
       LET existing == loadProgress(fs[progressFile], ok) IN
       /\ loaded' = fs[progressFile]
       /\ readOk' = ok
       /\ Fault(~ok)
       /\ IF existing.kind \in {"scalar", "badrec"}
          THEN /\ pc' = "thrown"
               /\ error' = "load"
               /\ UNCHANGED memory
          ELSE /\ pc' = "loop"
               /\ error' = error
               /\ existingArticles' = existing.articles
               /\ completed' = completedThreadIds(existing.articles)
               /\ remaining' = remainingThreads(threads, completedThreadIds(existing.articles))
               /\ articles' = existing.articles
               /\ totalAnalyzedPosts' = SumAnalyzedPosts(existing.articles)
               /\ totalAntisemiticPercentage' = SumPercentage(existing.articles)
               /\ UNCHANGED << cur, batch >>
  /\ UNCHANGED << fs, threads, run, result, requests, responses, checkpointed,
                  progressed, renames, priorOutput, failedStep, cleanupFailed, saved, stub >>

\* for (const thread of remainingThreads): the threads left once the
\* iteration for the first one has ended (normally or by `continue`)
\* variant: a failed thread ends the loop
nextThreads_break(ts) == <<>>
nextThreads(ts) == Tail(ts)

\* a completion request: the thread, "summary" or "chunk", and for a chunk
\* the index i of its first post
Request(no, kind, i) == [no |-> no, kind |-> kind, i |-> i]
\* what the history keeps of the answer to a summary request
Returned(r) ==
  [kind |-> r.kind, match |-> r.headline /\ r.article, x |-> 0, y |-> 0]

\* the requests that analyzeAntisemiticContent issues before it waits, when
\* its loop is at chunk c.i
\* variant: the chunks are requested all at once
chunkRequests_all(c) ==
  [k \in 1..((c.validPosts - c.i + ANTISEMITIC_BATCH_SIZE - 1) \div ANTISEMITIC_BATCH_SIZE) |->
     Request(c.thread.no, "chunk", c.i + (k - 1) * ANTISEMITIC_BATCH_SIZE)]
chunkRequests(c) == << Request(c.thread.no, "chunk", c.i) >>

\* variant: the callback is not called
onProgress_skipped(calls, thread) == calls
\* onProgress(thread.no.toString())
onProgress(calls, thread) == Append(calls, thread.no)

\* What follows the return of a completion call, up to the next await: the
\* request for the next chunk if a chunk is left; else the end of
\* analyzeThread and, in generateArticles, the push of its record and the
\* update of the running totals, up to the call of saveProgress.
Continue(c) ==
  /\ cur' = c
  /\ IF c.i < c.validPosts
     THEN /\ pc' = "chunks"
          /\ requests' = requests \o chunkRequests(c)
          /\ UNCHANGED << articles, totalAnalyzedPosts, totalAntisemiticPercentage,
                          checkpointed >>
     ELSE LET analysis == ArticleAnalysis(c, run) IN
          /\ articles' = Append(articles, analysis)
          /\ totalAnalyzedPosts' = totalAnalyzedPosts + analysis.analyzedPosts
          /\ totalAntisemiticPercentage' =
               IF analysis.analyzedComments > 0
               THEN Plus(totalAntisemiticPercentage, analysis.percentage)
               ELSE totalAntisemiticPercentage
          /\ checkpointed' = [j \in 1..Len(articles') |-> articles'[j].threadId]
          /\ pc' = "save"
          /\ UNCHANGED requests

\* the next iteration of the loop of generateArticles, and analyzeThread up
\* to its first await: the sample, the filter of empty posts and the summary
\* request
AnalyzeThread ==
  /\ pc = "loop"
  /\ remaining # <<>>
  /\ LET thread == Head(remaining)
         n == getPostsToAnalyze(thread) IN
     \E v \in randomSample(thread, n) :
       /\ cur' = [thread |-> thread, analyzedPosts |-> n, validPosts |-> v,
                  headline |-> "", article |-> "", i |-> 0,
                  totalAntisemiticCount |-> 0, totalAnalyzed |-> 0]
       /\ requests' = Append(requests, Request(thread.no, "summary", 0))
  /\ pc' = "summary"
  /\ UNCHANGED << fs, threads, run, existingArticles, completed, remaining, articles,
                  totalAnalyzedPosts, totalAntisemiticPercentage, batch, result,
                  error, responses, checkpointed, progressed, renames, priorOutput,
                  loaded, readOk, failedStep, cleanupFailed, saved, stub, faults >>

\* the return of the summary request and parseArticleResponse.  A rejected
\* call is caught by the loop of generateArticles, which goes on with the
\* next thread.
Summarize ==
  /\ pc = "summary"
  /\ \E r \in SummaryResponses :
       /\ responses' = Append(responses, Returned(r))
       /\ Fault(r # StubSummary)
       /\ stub' = (stub /\ r = StubSummary)
       /\ IF r.kind = "throw"
          THEN /\ remaining' = nextThreads(remaining)
               /\ cur' = NoCur
               /\ pc' = "loop"
               /\ UNCHANGED << articles, totalAnalyzedPosts, totalAntisemiticPercentage,
                               requests, checkpointed >>
          ELSE /\ Continue([cur EXCEPT !.headline = parseArticleResponse(r)[1],
                                       !.article = parseArticleResponse(r)[2]])
               /\ UNCHANGED remaining
  /\ UNCHANGED << fs, threads, run, existingArticles, completed, batch, result,
                  error, progressed, renames, priorOutput, loaded, readOk,
                  failedStep, cleanupFailed, saved >>

\* the return of a chunk request: the rest of that iteration of the loop of
\* analyzeAntisemiticContent
Classify ==
  /\ pc = "chunks"
  /\ \E r \in ChunkResponses(batchLength(cur.validPosts, cur.i)) :
       /\ responses' = Append(responses, r)
       /\ Fault(r # StubChunk(batchLength(cur.validPosts, cur.i)))
       /\ stub' = (stub /\ r = StubChunk(batchLength(cur.validPosts, cur.i)))
       /\ Continue(analyzeBatch(cur, r))
  /\ UNCHANGED << fs, threads, run, existingArticles, completed, remaining, batch, result,
                  error, progressed, renames, priorOutput, loaded, readOk,
                  failedStep, cleanupFailed, saved >>

\* the return of saveProgress (its failure is only logged), then onProgress,
\* then the end of the iteration.  A write that fails may leave the file as
\* it was or partly written.
SaveProgress ==
  /\ pc = "save"
  /\ \E outcome \in {"ok", "failed", "partial"} :
       /\ fs' = [fs EXCEPT ![progressFile] =
                   IF outcome = "ok" THEN ProgressJSON(articles)
                   ELSE IF outcome = "partial" THEN Garbage ELSE @]
       /\ saved' = IF outcome = "ok" THEN saved \cup Records(JSONRecords(articles)) ELSE saved
       /\ Fault(outcome # "ok")
  /\ progressed' = onProgress(progressed, cur.thread)
  /\ remaining' = nextThreads(remaining)
  /\ cur' = NoCur
  /\ pc' = "loop"
  /\ UNCHANGED << threads, run, existingArticles, completed, articles,
                  totalAnalyzedPosts, totalAntisemiticPercentage, batch, result,
                  error, requests, responses, checkpointed, renames, priorOutput,
                  loaded, readOk, failedStep, cleanupFailed, stub >>

\* the end of the loop: the average, then the removal of progress.json,
\* whose failure is ignored
UnlinkProgress ==
  /\ pc = "loop"
  /\ remaining = <<>>
  /\ \E ok \in BOOLEAN :
       /\ fs' = [fs EXCEPT ![progressFile] = IF ok THEN Absent ELSE @]
       /\ Fault(~ok)
  /\ pc' = "mkdir"
  /\ UNCHANGED << threads, run, memory, result, error, history, stub >>

\* the batch object, then saveOutput: mkdir
SaveOutputMkdir ==
  /\ pc = "mkdir"
  /\ batch' = ArticleBatch(articles, totalAnalyzedPosts,
                           averagePercentage(articles, totalAntisemiticPercentage), run)
  /\ \E ok \in BOOLEAN :
       /\ pc' = IF ok THEN "write" ELSE "catch"
       /\ failedStep' = IF ok THEN failedStep ELSE "mkdir"
       /\ Fault(~ok)
  /\ UNCHANGED << fs, threads, run, existingArticles, completed, remaining, articles,
                  totalAnalyzedPosts, totalAntisemiticPercentage, cur, result,
                  error, requests, responses, checkpointed, progressed, renames,
                  priorOutput, loaded, readOk, cleanupFailed, saved, stub >>

\* saveOutput: writeFile(tempFile)
SaveOutputWrite ==
  /\ pc = "write"
  /\ \E outcome \in {"ok", "failed", "partial"} :
       /\ fs' = [fs EXCEPT ![tempFile] =
                   IF outcome = "ok" THEN OutputJSON(batch)
                   ELSE IF outcome = "partial" THEN Garbage ELSE @]
       /\ pc' = IF outcome = "ok" THEN "rename" ELSE "catch"
       /\ failedStep' = IF outcome = "ok" THEN failedStep ELSE "write"
       /\ Fault(outcome # "ok")
  /\ UNCHANGED << threads, run, memory, result, error, requests, responses,
                  checkpointed, progressed, renames, priorOutput, loaded, readOk,
                  cleanupFailed, saved, stub >>

\* fs.rename(from, to)
Rename(files, from, to) ==
  IF from = to THEN files
  ELSE [files EXCEPT ![to] = files[from], ![from] = Absent]

\* saveOutput: rename(tempFile, outputFile) and, when it succeeds, the
\* return of saveOutput and of generateArticles
SaveOutputRename ==
  /\ pc = "rename"
  /\ \E ok \in BOOLEAN :
       /\ Fault(~ok)
       /\ IF ok
          THEN /\ fs' = Rename(fs, tempFile, outputFile)
               /\ renames' = renames + 1
               /\ result' = batch
               /\ pc' = "done"
               /\ UNCHANGED failedStep
          ELSE /\ pc' = "catch"
               /\ failedStep' = "rename"
               /\ UNCHANGED << fs, renames, result >>
  /\ UNCHANGED << threads, run, memory, error, requests, responses, checkpointed,
                  progressed, priorOutput, loaded, readOk, cleanupFailed, saved, stub >>

\* variant: the catch block leaves the temp file
cleanup_skipped(files, ok) == files
\* existsSync(tempFile), then unlink(tempFile).catch(() => {})
cleanup(files, ok) ==
  [files EXCEPT ![tempFile] = IF Exists(@) /\ ok THEN Absent ELSE @]

\* saveOutput: the catch block removes the temp file when it exists (a
\* failure of this unlink is swallowed) and throws the error again, which
\* generateArticles passes to its caller
SaveOutputCatch ==
  /\ pc = "catch"
  /\ \E ok \in BOOLEAN :
       /\ ~ok => Exists(fs[tempFile])
       /\ Fault(~ok)
       /\ cleanupFailed' = ~ok
       /\ fs' = cleanup(fs, ok)
  /\ pc' = "thrown"
  /\ error' = "commit"
  /\ UNCHANGED << threads, run, memory, result, requests, responses, checkpointed,
                  progressed, renames, priorOutput, loaded, readOk, failedStep, saved,
                  stub >>

\* what is observed of a new invocation
ResetHistory ==
  /\ requests' = <<>>
  /\ responses' = <<>>
  /\ checkpointed' = <<>>
  /\ progressed' = <<>>
  /\ renames' = 0
  /\ loaded' = Absent
  /\ readOk' = TRUE
  /\ failedStep' = "none"
  /\ cleanupFailed' = FALSE
  /\ saved' = {}

\* the process stops: its memory, and what was observed of the invocation,
\* are gone; a write that is under way may leave its file partly written
Crash ==
  /\ pc \in Running
  /\ Fault(TRUE)
  /\ \E partial \in BOOLEAN :
       fs' = IF partial /\ pc = "save" THEN [fs EXCEPT ![progressFile] = Garbage]
             ELSE IF partial /\ pc = "write" THEN [fs EXCEPT ![tempFile] = Garbage]
             ELSE fs
  /\ pc' = "crashed"
  /\ ResetMemory
  /\ ResetHistory
  /\ UNCHANGED << threads, run, result, error, priorOutput, stub >>

\* generateArticles is invoked again for the same job, after an invocation
\* that did not complete or that left its checkpoint behind
Restart ==
  /\ pc \in {"crashed", "thrown"} \/ (pc = "done" /\ Exists(fs[progressFile]))
  /\ run < MaxRuns
  /\ run' = run + 1
  /\ pc' = "load"
  /\ ResetMemory
  /\ result' = NoBatch
  /\ error' = "none"
  /\ ResetHistory
  /\ priorOutput' = fs[outputFile]
  /\ UNCHANGED << fs, threads, stub, faults >>

Next ==
  \/ LoadProgress
  \/ AnalyzeThread
  \/ Summarize
  \/ Classify
  \/ SaveProgress
  \/ UnlinkProgress
  \/ SaveOutputMkdir
  \/ SaveOutputWrite
  \/ SaveOutputRename
  \/ SaveOutputCatch
  \/ Crash
  \/ Restart

Spec == Init /\ [][Next]_vars

\* ------------------------------------------------ one thread, analyzed once
\* Threads for the analysis of a single thread: also one with 10 posts
\* (sample of 3), one whose sample fills one chunk exactly (20), one whose
\* sample needs three chunks (41) and one whose sample may lack texts.
AnalyzerThreads ==
  ThreadCatalog \cup
    { Thread(4, 10, 10), Thread(5, 66, 66), Thread(6, 134, 134), Thread(7, 10, 2) }

\* The job is invoked on a list of one thread, with no files in place.
ThreadInit ==
  /\ threads \in { << t >> : t \in AnalyzerThreads }
  /\ fs = [f \in Paths |-> Absent]
  /\ priorOutput = Absent
  /\ run = 1
  /\ pc = "load"
  /\ FreshMemory
  /\ result = NoBatch
  /\ error = "none"
  /\ requests = <<>>
  /\ responses = <<>>
  /\ checkpointed = <<>>
  /\ progressed = <<>>
  /\ renames = 0
  /\ loaded = Absent
  /\ readOk = TRUE
  /\ failedStep = "none"
  /\ cleanupFailed = FALSE
  /\ saved = {}
  /\ stub = TRUE
  /\ faults = 0

\* generateArticles up to the end of its loop
ThreadNext ==
  \/ LoadProgress
  \/ AnalyzeThread
  \/ Summarize
  \/ Classify
  \/ SaveProgress

ThreadSpec == ThreadInit /\ [][ThreadNext]_vars

\* ------------------------------------------------------------- scheduling
\* Every call that generateArticles awaits returns or fails; the process
\* need not stop and need not be started again.
Step ==
  \/ LoadProgress
  \/ AnalyzeThread
  \/ Summarize
  \/ Classify
  \/ SaveProgress
  \/ UnlinkProgress
  \/ SaveOutputMkdir
  \/ SaveOutputWrite
  \/ SaveOutputRename
  \/ SaveOutputCatch

FairSpec == Spec /\ WF_vars(Step)

\* one invocation of generateArticles that is not stopped
RunSpec == Init /\ [][Step]_vars

\* ================================================================= claims
\* the identifiers in the checkpoint that loadProgress read
CheckpointIds ==
  IF pc # "load" /\ readOk /\ loaded.kind = "ok" THEN ThreadIds(loaded.articles) ELSE {}
\* the loop over the remaining threads has ended
LoopEnded == pc \in {"mkdir", "write", "rename", "catch", "done"} \/ (pc = "thrown" /\ error = "commit")
SummaryRequests(no) ==
  { j \in 1..Len(requests) : requests[j].kind = "summary" /\ requests[j].no = no }
Occurrences(no) == { k \in 1..Len(threads) : threads[k].no = no }

\* C1: no completion request is issued for a thread whose identifier is in
\* the checkpoint loaded at the start of the invocation; every classification
\* request follows, within its thread, a summary request; and when the loop
\* has ended every input thread whose identifier is not in that checkpoint
\* has been given to the analyzer (one summary request per occurrence).
C1_Resume ==
  /\ \A j \in 1..Len(requests) :
       /\ requests[j].no \notin CheckpointIds
       /\ requests[j].kind = "chunk" =>
            /\ j > 1
            /\ requests[j - 1].no = requests[j].no
            /\ requests[j].i = 0 <=> requests[j - 1].kind = "summary"
  /\ LoopEnded =>
       \A k \in 1..Len(threads) :
         threads[k].no \notin CheckpointIds =>
           Cardinality(SummaryRequests(threads[k].no)) = Cardinality(Occurrences(threads[k].no))

C1_Witness ==
  /\ pc = "done"
  /\ CheckpointIds # {}
  /\ \E k \in 1..Len(threads) : threads[k].no \in CheckpointIds
  /\ \E k \in 1..Len(threads) :
       /\ threads[k].no \notin CheckpointIds
       /\ \E j \in 1..Len(requests) : requests[j].no = threads[k].no /\ requests[j].kind = "chunk"

\* what analyzeThread yields for thread t with the deterministic stub when
\* v of the sampled posts have a text (generatedAt left out)
StubRecord(t, v) ==
  ArticleAnalysis([thread |-> t, analyzedPosts |-> getPostsToAnalyze(t), validPosts |-> v,
                   headline |-> "Headline", article |-> "Article", i |-> v,
                   totalAntisemiticCount |-> (v + ANTISEMITIC_BATCH_SIZE - 1) \div ANTISEMITIC_BATCH_SIZE,
                   totalAnalyzed |-> v], 0)
FreshRecordsOf(no) ==
  UNION { { StubRecord(threads[k], v) : v \in randomSample(threads[k], getPostsToAnalyze(threads[k])) } :
            k \in Occurrences(no) }
Undated(r) == [r EXCEPT !.generatedAt = 0]

\* C2: with the deterministic stub, an invocation that finds a checkpoint
\* holding records for some but not all input threads returns exactly one
\* record per input thread, among them every checkpointed record unchanged,
\* and its records are those of one invocation without checkpoint.
C2_ResumeIdempotent ==
  ( /\ pc = "done"
    /\ stub
    /\ readOk
    /\ loaded.kind = "ok"
    /\ loaded.articles # <<>>
    /\ ThreadIds(loaded.articles) \subseteq ThreadIds([k \in 1..Len(threads) |-> [threadId |-> threads[k].no]])
    /\ ThreadIds(loaded.articles) # ThreadIds([k \in 1..Len(threads) |-> [threadId |-> threads[k].no]]) )
  =>
  ( /\ \A k \in 1..Len(threads) :
         Cardinality({ j \in 1..Len(result.articles) :
                         result.articles[j].threadId = threads[k].no }) = 1
    /\ Records(loaded.articles) \subseteq Records(result.articles)
    /\ \A j \in 1..Len(result.articles) :
         Undated(result.articles[j]) \in FreshRecordsOf(result.articles[j].threadId) )

\* C3: generateArticles raises an error only when the output commit failed,
\* and it does whenever the commit failed.
C3_OnlyCommitFails ==
  /\ pc = "thrown" => error = "commit" /\ failedStep # "none"
  /\ (failedStep # "none" /\ pc \in {"done", "thrown"}) => pc = "thrown"

\* C4 (as stated): after a failed saveOutput no temp file exists,
\* articles.json is as it was and the failure has reached the caller.
C4_NoTempAfterFailure ==
  (failedStep # "none" /\ pc \notin {"catch", "crashed"}) =>
    /\ pc = "thrown" /\ error = "commit"
    /\ ~Exists(fs[tempFile])
    /\ fs[outputFile] = priorOutput

\* C4 (amended): after a failed saveOutput the failure has reached the
\* caller, nothing was returned, articles.json is as it was, and a temp
\* file exists only if the unlink of the catch block failed too.
C4_CommitFailure ==
  (failedStep # "none" /\ pc \notin {"catch", "crashed"}) =>
    /\ pc = "thrown" /\ error = "commit"
    /\ result = NoBatch
    /\ fs[outputFile] = priorOutput
    /\ Exists(fs[tempFile]) => cleanupFailed

C4_Witness ==
  /\ pc = "thrown"
  /\ failedStep = "rename"
  /\ priorOutput = OldOutput
  /\ fs[outputFile] = OldOutput
  /\ ~Exists(fs[tempFile])
  /\ articles # <<>>

\* C5: articles.json always is what it was when the invocation started or,
\* once the invocation has returned, the complete new batch; it is never
\* partly written and is replaced at most once per invocation.
C5_AtomicOutput ==
  /\ \/ fs[outputFile] = priorOutput /\ renames = 0
     \/ pc = "done" /\ fs[outputFile] = OutputJSON(result) /\ renames = 1
  /\ fs[outputFile].kind # "garbage"

C5_Witness ==
  /\ pc = "done"
  /\ renames = 1
  /\ priorOutput = OldOutput
  /\ fs[outputFile] = OutputJSON(result)
  /\ result.articles # <<>>
  /\ faults > 0

Unique(as) == \A i, j \in 1..Len(as) : as[i].threadId = as[j].threadId => i = j

\* C6: no two records of a written checkpoint or of the returned batch have
\* the same threadId.
C6_UniqueThreadIds ==
  /\ fs[progressFile].kind = "ok" => Unique(fs[progressFile].articles)
  /\ Unique(result.articles)

\* C7: a record has percentage = 100 * flagged / analyzed when analyzed > 0
\* and a percentage that is not NaN when analyzed = 0.
C7_PercentageDefined ==
  \A j \in 1..Len(articles) :
    LET a == articles[j] IN
    /\ a.analyzedComments > 0 =>
         /\ a.percentage.k = "num"
         /\ a.percentage.n * a.analyzedComments = 100 * a.antisemiticComments * a.percentage.d
    /\ a.analyzedComments = 0 => a.percentage.k # "nan"

OnDisk(f) == IF fs[f].kind \in {"ok", "batch"} THEN Records(fs[f].articles) ELSE {}

\* C8: a record that a checkpoint write of the invocation has stored is,
\* from then on, in progress.json or in articles.json.
C8_RecordsStayOnDisk ==
  saved \subseteq OnDisk(progressFile) \cup OnDisk(outputFile)

\* C9: when progress.json is missing, unreadable, not JSON or not of the
\* shape of a checkpoint, the invocation raises no error for it, starts from
\* the empty list, analyzes every input thread and returns only records
\* produced in this invocation.
C9_CorruptCheckpointIsEmpty ==
  (pc # "load" /\ (~readOk \/ loaded.kind # "ok")) =>
    /\ ~(pc = "thrown" /\ error = "load")
    /\ existingArticles = <<>>
    /\ LoopEnded =>
         \A k \in 1..Len(threads) : SummaryRequests(threads[k].no) # {}
    /\ \A j \in 1..Len(result.articles) : result.articles[j].generatedAt = run

RECURSIVE SumOf(_, _)
SumOf(f, S) ==
  IF S = {} THEN Zero
  ELSE LET x == CHOOSE y \in S : TRUE IN Plus(f[x], SumOf(f, S \ {x}))

\* C10: in the returned batch threadCount is the number of records,
\* totalAnalyzedPosts the sum of their analyzedPosts, and the average the
\* mean of percentage over the records with analyzedComments > 0 (0 when
\* there is none).
C10_BatchStats ==
  pc = "done" =>
    LET as == result.articles
        st == result.batchStats
        counted == { j \in 1..Len(as) : as[j].analyzedComments > 0 }
        posts == SumOf([j \in 1..Len(as) |-> Num(as[j].analyzedPosts, 1)], 1..Len(as))
        total == SumOf([j \in 1..Len(as) |-> as[j].percentage], counted)
    IN /\ st.totalThreads = Len(as)
       /\ Num(st.totalAnalyzedPosts, 1) = posts
       /\ st.averageAntisemiticPercentage =
            IF counted = {} THEN Zero ELSE DivideBy(total, Cardinality(counted))

C10_Witness ==
  /\ pc = "done"
  /\ existingArticles # <<>>
  /\ Len(result.articles) > Len(existingArticles)
  /\ \E j \in 1..Len(result.articles) : result.articles[j].analyzedComments = 0
  /\ \E j \in 1..Len(result.articles) : result.articles[j].analyzedComments > 0
  /\ result.batchStats.averageAntisemiticPercentage # Zero

\* ---- the analysis of one thread (ThreadSpec: the input is one thread)
TheThread == threads[1]
\* the analysis of the thread has ended with a record
Analyzed == articles # <<>>
TheRecord == articles[1]
ChunkRequests == { j \in 1..Len(requests) : requests[j].kind = "chunk" }
AllWithText == TheThread.withText = TheThread.posts

\* n = ceil(a / b) for non-negative a and positive b
IsCeil(n, a, b) == n * b >= a /\ (n - 1) * b < a

\* what C11 says of every thread whose posts all have a text
SampledAndChunked ==
  (Analyzed /\ AllWithText) =>
    /\ IsCeil(TheRecord.analyzedPosts, TheThread.posts * analysisPercentage, 100)
    /\ IsCeil(Cardinality(ChunkRequests), TheRecord.analyzedPosts, ANTISEMITIC_BATCH_SIZE)
    /\ TheThread.posts = 10 =>
         /\ TheRecord.analyzedPosts = 3
         /\ Cardinality(ChunkRequests) = 1
TwoOfThree ==
  /\ Analyzed
  /\ TheThread.posts = 10
  /\ AllWithText
  /\ responses[2] = [kind |-> "text", match |-> TRUE, x |-> 2, y |-> 3]

\* C11 (as stated): a thread of P posts, all with a text, has
\* ceil(P * 30 / 100) posts sampled and sent in ceil(sampled / 20) chunk
\* requests; 10 posts give 3 sampled posts and 1 chunk request, and the
\* answer "2/3" gives analyzedComments = 3, antisemiticComments = 2 and
\* percentage = 66.67.
C11_Percentage6667 ==
  /\ SampledAndChunked
  /\ TwoOfThree =>
       /\ TheRecord.analyzedComments = 3
       /\ TheRecord.antisemiticComments = 2
       /\ TheRecord.percentage = Num(6667, 100)

\* C11 (amended): the same, with percentage = 100 * 2 / 3, not rounded
\* (66.67 when rounded to two decimals).
C11_SingleThread ==
  /\ SampledAndChunked
  /\ TwoOfThree =>
       /\ TheRecord.analyzedComments = 3
       /\ TheRecord.antisemiticComments = 2
       /\ TheRecord.percentage.k = "num"
       /\ 3 * TheRecord.percentage.n = 200 * TheRecord.percentage.d
       /\ 200 * TheRecord.percentage.n >= 13333 * TheRecord.percentage.d
       /\ 200 * TheRecord.percentage.n < 13335 * TheRecord.percentage.d

C11_Witness ==
  /\ TwoOfThree
  /\ pc = "loop"
  /\ TheRecord.analyzedPosts = 3
  /\ TheRecord.percentage = Num(200, 3)
  /\ Len(requests) = 2

\* a completion call has just returned r
ReturnsNow(r) == responses' = Append(responses, r)
Unlabelled == [kind |-> "text", match |-> FALSE, x |-> 0, y |-> 0]
NoPattern == [kind |-> "text", match |-> FALSE, x |-> 0, y |-> 0]

\* the summary request of the thread was answered without the labels: the
\* analysis goes on with the sentinel strings and ends with a record that
\* holds them
SentinelStrings ==
  (responses # <<>> /\ responses[1] = Unlabelled) =>
    /\ pc \in {"chunks", "save", "loop"}
    /\ pc = "chunks" =>
         cur.headline = "Untitled Thread" /\ cur.article = "No content available"
    /\ pc \in {"save", "loop"} =>
         /\ Analyzed
         /\ TheRecord.headline = "Untitled Thread"
         /\ TheRecord.article = "No content available"
\* a chunk request is answered without an X/Y pattern: the answer is parsed
\* as (0, 1) and the chunk counts like every chunk that was answered
NoPatternStep ==
  (pc = "chunks" /\ ReturnsNow(NoPattern)) =>
    /\ parseAntisemiticResponse(NoPattern) = << 0, 1 >>
    /\ cur'.totalAntisemiticCount = cur.totalAntisemiticCount
    /\ cur'.totalAnalyzed = cur.totalAnalyzed + batchLength(cur.validPosts, cur.i)
    /\ cur'.i = cur.i + ANTISEMITIC_BATCH_SIZE
    /\ pc' \in {"chunks", "save"}

\* C12: a summary answer without HEADLINE:/ARTICLE: does not fail the thread
\* and gives a record with "Untitled Thread" / "No content available"; a
\* classification answer without X/Y does not fail the chunk and is parsed
\* as (0, 1).
C12_ParserRobustness == []SentinelStrings /\ [][NoPatternStep]_vars

C12_Witness ==
  /\ Len(responses) > 2
  /\ responses[1] = Unlabelled
  /\ responses[2] = NoPattern
  /\ pc = "loop"
  /\ TheRecord.headline = "Untitled Thread"
  /\ TheRecord.analyzedComments = TheRecord.analyzedPosts
  /\ TheRecord.antisemiticComments = 1

\* ---- the loop of generateArticles, within one invocation (RunSpec)
InLoop == pc \in {"loop", "summary", "chunks", "save"}
\* a thread is being analyzed: a request for it is outstanding, or its
\* record waits for the checkpoint write to return
InThread == pc \in {"summary", "chunks", "save"}
Ids(as) == [j \in 1..Len(as) |-> as[j].threadId]
\* the threadIds of the records appended in this invocation
NewIds == SubSeq(Ids(articles), Len(existingArticles) + 1, Len(articles))
InputIds == [k \in 1..Len(threads) |-> threads[k].no]
\* a is b with some elements left out
RECURSIVE IsSubSeq(_, _)
IsSubSeq(a, b) ==
  IF a = <<>> THEN TRUE
  ELSE IF b = <<>> THEN FALSE
  ELSE IF Head(a) = Head(b) THEN IsSubSeq(Tail(a), Tail(b))
  ELSE IsSubSeq(a, Tail(b))
\* the threads that the loop has taken so far, the one in analysis included
Taken ==
  Len(remainingThreads(threads, completed)) - Len(remaining) + (IF InThread THEN 1 ELSE 0)

\* C13: when the record of a thread has been appended, a checkpoint write
\* with this record and all earlier ones is attempted, then onProgress is
\* called with the identifier of the thread, and only then is a request
\* issued for the next thread; onProgress is called once for each thread
\* analyzed in this invocation, in input order, and for no thread that was
\* skipped or whose analysis failed.
C13_SuccessOrdering ==
  /\ NewIds = IF pc = "save" THEN Append(progressed, cur.thread.no) ELSE progressed
  /\ NewIds # <<>> => checkpointed = Ids(articles)
  /\ InLoop => Cardinality({ j \in 1..Len(requests) : requests[j].kind = "summary" }) = Taken
  /\ pc = "save" => requests[Len(requests)].no = cur.thread.no
  /\ IsSubSeq(progressed, InputIds)
  /\ \A j \in 1..Len(progressed) : progressed[j] \notin CheckpointIds

C13_Witness ==
  /\ pc = "save"
  /\ Len(progressed) = 1
  /\ progressed[1] # cur.thread.no
  /\ Len(articles) = 2
  /\ checkpointed = Ids(articles)
  /\ Len(requests) > 3

\* a completion call was rejected
Rejected == [kind |-> "throw", match |-> FALSE, x |-> 0, y |-> 0]

\* the summary call of the thread in analysis is rejected: nothing but the
\* position in the input changes, so the invocation goes on, with the next
\* thread, from the state it would be in had the thread not been in the input
SummaryRejectedStep ==
  (pc = "summary" /\ ReturnsNow(Rejected)) =>
    /\ requests' = requests
    /\ articles' = articles
    /\ checkpointed' = checkpointed
    /\ fs' = fs
    /\ progressed' = progressed
    /\ totalAnalyzedPosts' = totalAnalyzedPosts
    /\ totalAntisemiticPercentage' = totalAntisemiticPercentage
    /\ remaining' = Tail(remaining)
    /\ pc' = "loop"
\* the request that follows a rejected summary request is the summary
\* request of the next thread
NoChunkAfterRejection ==
  \A j \in 1..Len(responses) :
    (requests[j].kind = "summary" /\ responses[j] = Rejected /\ j < Len(requests)) =>
      requests[j + 1].kind = "summary"

\* C14: when the summary call of a thread throws, no classification request
\* is issued for it, no record is appended, the checkpoint is not written,
\* the running totals stay, and the job goes on with the next thread; the
\* other threads are analyzed as if the thread had not been in the input.
C14_ThreadFailureIsolated == []NoChunkAfterRejection /\ [][SummaryRejectedStep]_vars

C14_Witness ==
  /\ pc = "done"
  /\ Len(requests) > 1
  /\ requests[1].kind = "summary"
  /\ responses[1] = Rejected
  /\ Len(result.articles) = 1
  /\ result.articles[1].threadId # requests[1].no
  /\ result.articles[1].generatedAt = run

\* the indices at which the chunks of n post texts start
ChunkStarts(n) ==
  { k * ANTISEMITIC_BATCH_SIZE : k \in { m \in 0..n : m * ANTISEMITIC_BATCH_SIZE < n } }
ChunkRejected ==
  \E j \in 1..Len(responses) : requests[j].kind = "chunk" /\ responses[j] = Rejected

\* the call for a chunk is rejected: the counts stay, and the next chunk is
\* requested or, after the last chunk, the record of the thread is appended
ChunkRejectedStep ==
  (pc = "chunks" /\ ReturnsNow(Rejected)) =>
    /\ cur'.totalAntisemiticCount = cur.totalAntisemiticCount
    /\ cur'.totalAnalyzed = cur.totalAnalyzed
    /\ IF cur.i + ANTISEMITIC_BATCH_SIZE < cur.validPosts
       THEN /\ pc' = "chunks"
            /\ requests' =
                 Append(requests, Request(cur.thread.no, "chunk", cur.i + ANTISEMITIC_BATCH_SIZE))
       ELSE /\ pc' = "save"
            /\ Len(articles') = Len(articles) + 1
            /\ articles'[Len(articles')].threadId = cur.thread.no
\* a thread with a rejected chunk call has all its chunks requested and
\* ends with a record
AllChunksRequested ==
  ChunkRejected =>
    /\ pc \in {"chunks", "save", "loop"}
    /\ pc = "save" => { requests[j].i : j \in ChunkRequests } = ChunkStarts(cur.validPosts)
    /\ pc \in {"save", "loop"} => Analyzed

\* C15: when the call for one classification chunk throws, the chunk adds 0
\* to the flagged and to the analyzed total, every later chunk of the thread
\* is still requested and the thread still gets its record.
C15_ChunkFailureIsolated == []AllChunksRequested /\ [][ChunkRejectedStep]_vars

C15_Witness ==
  /\ pc = "loop"
  /\ Len(responses) = 4
  /\ responses[3] = Rejected
  /\ Analyzed
  /\ TheRecord.analyzedComments = 21
  /\ TheRecord.antisemiticComments = 2

\* the number of posts in the chunk of n post texts that starts at i
ChunkSize(n, i) == IF n - i > ANTISEMITIC_BATCH_SIZE THEN ANTISEMITIC_BATCH_SIZE ELSE n - i
RECURSIVE SumSizes(_, _)
SumSizes(n, starts) ==
  IF starts = {} THEN 0
  ELSE LET i == CHOOSE x \in starts : TRUE
       IN ChunkSize(n, i) + SumSizes(n, starts \ {i})
\* the starts of the chunks whose call was rejected
RejectedStarts ==
  { requests[j].i : j \in { k \in 1..Len(responses) :
                               requests[k].kind = "chunk" /\ responses[k] = Rejected } }

\* C16: for N post texts analyzeAntisemiticContent issues ceil(N / 20) calls,
\* for consecutive chunks of at most 20 posts that partition the list; the
\* analyzed total is N when no call is rejected, whatever the answers say:
\* every chunk that is answered counts with its actual size.
C16_SubBatcherCounts ==
  pc = "save" =>
    LET N == cur.validPosts IN
    /\ IsCeil(Cardinality(ChunkRequests), N, ANTISEMITIC_BATCH_SIZE)
    /\ \A j \in ChunkRequests :
         /\ requests[j].i = (j - 2) * ANTISEMITIC_BATCH_SIZE
         /\ ChunkSize(N, requests[j].i) \in 1..ANTISEMITIC_BATCH_SIZE
    /\ SumSizes(N, { requests[j].i : j \in ChunkRequests }) = N
    /\ cur.totalAnalyzed = N - SumSizes(N, RejectedStarts)
    /\ TheRecord.analyzedComments = cur.totalAnalyzed
    /\ ~ChunkRejected => TheRecord.analyzedComments = N

C16_Witness ==
  /\ pc = "save"
  /\ cur.validPosts = 41
  /\ Len(responses) = 4
  /\ responses[2] = NoPattern
  /\ responses[3].y = 21
  /\ TheRecord.analyzedComments = 41

\* the completion requests that were issued and have not returned
Outstanding == Len(requests) - Len(responses)
SummaryRequestsIssued == { j \in 1..Len(requests) : requests[j].kind = "summary" }
SummaryRequestsRejected ==
  { j \in SummaryRequestsIssued : j <= Len(responses) /\ responses[j] = Rejected }

\* C17: at most one completion request is outstanding; the first chunk
\* request of a thread follows the answer to its summary request, each
\* further chunk request the return of the chunk before it; and a request
\* for the next thread is issued only when each thread before it has its
\* record or has failed.
C17_SequentialRequests ==
  /\ Outstanding = IF pc \in {"summary", "chunks"} THEN 1 ELSE 0
  /\ \A j \in 1..Len(requests) :
       requests[j].kind = "chunk" =>
         /\ j > 1
         /\ j - 1 <= Len(responses)
         /\ requests[j - 1].no = requests[j].no
         /\ \/ /\ requests[j - 1].kind = "summary"
               /\ responses[j - 1].kind = "text"
               /\ requests[j].i = 0
            \/ /\ requests[j - 1].kind = "chunk"
               /\ requests[j].i = requests[j - 1].i + ANTISEMITIC_BATCH_SIZE
  /\ InLoop =>
       Len(NewIds) + Cardinality(SummaryRequestsRejected) =
         Cardinality(SummaryRequestsIssued) - (IF pc \in {"summary", "chunks"} THEN 1 ELSE 0)

C17_Witness ==
  /\ pc = "chunks"
  /\ Outstanding = 1
  /\ requests[Len(requests)].i = ANTISEMITIC_BATCH_SIZE
  /\ NewIds # <<>>
  /\ SummaryRequestsRejected = {}

\* generateArticles has returned a batch or has raised the error of the commit
Returned_Or_CommitFailed == pc = "done" \/ (pc = "thrown" /\ error = "commit")
\* one summary request at most for each remaining thread, none repeated
NoRetry ==
  /\ InLoop => Cardinality(SummaryRequestsIssued) = Taken
  /\ Cardinality(SummaryRequestsIssued) <= Len(threads)
  /\ Len(requests) <= Len(responses) + 1

\* C18: when every call it awaits returns or fails, an invocation of
\* generateArticles ends: it returns a batch or raises the error of the
\* commit (unless the process is stopped); it issues at most one summary
\* request per remaining thread and repeats no request.
C18_Terminates ==
  /\ [](pc = "load" => <>(Returned_Or_CommitFailed \/ pc = "crashed"))
  /\ []NoRetry

\* C19: in every record that analyzeThread produces the flagged count is at
\* most the analyzed count, so that the percentage, where it is defined, is
\* between 0 and 100, whatever the completion service answers.
C19_FlaggedWithinAnalyzed ==
  \A j \in 1..Len(articles) :
    LET a == articles[j] IN
    /\ a.antisemiticComments >= 0
    /\ a.antisemiticComments <= a.analyzedComments
    /\ a.percentage.k = "num" =>
         /\ a.percentage.n >= 0
         /\ a.percentage.n <= 100 * a.percentage.d

\* C20: every record of the batch that generateArticles returns and commits
\* has the threadId of an input thread, and the batch has no more records
\* than the input has distinct threads, whatever checkpoint was found.
C20_OnlyInputThreads ==
  pc = "done" =>
    /\ \A j \in 1..Len(result.articles) :
         \E k \in 1..Len(threads) : threads[k].no = result.articles[j].threadId
    /\ result.batchStats.totalThreads <= Cardinality({ threads[k].no : k \in 1..Len(threads) })
    /\ fs[outputFile] = OutputJSON(result)

====
